---- MODULE Spec2Model ----
(***************************************************************************)
(* Model of the Arts Faculty dashboard script (src/app.py).                *)
(*                                                                         *)
(* One process hosts the Streamlit script.  Every view of the page is a    *)
(* run of the script from top to bottom in some session: the memoized      *)
(* load_data() call, the title, the emptiness branch, the seven charts in  *)
(* order (or the warning), and the sidebar usage note.  An exception that  *)
(* escapes the script ends the run at the statement that raised it.        *)
(*                                                                         *)
(* Strings whose whitespace matters (column names) are sequences of        *)
(* chunks: SP is one whitespace character, every other chunk is a          *)
(* whitespace-free word.                                                   *)
(***************************************************************************)
EXTENDS Integers, Sequences, FiniteSets, TLC

\* ------------------------------------------------------------------ bounds
MaxRows == 2
MaxRuns == 2
NumSessions == 2

Sessions == 1..NumSessions
NumCharts == 7

\* ------------------------------------------------------------ column names
SP == " "
NaN == "NaN"

ArtsProgram  == <<"Arts", SP, "Program">>
AcademicYear == <<"Bachelor", SP, SP, "Academic", SP, "Year", SP, "in", SP, "EU">>
StudyMedium  == <<"H.S.C", SP, "or", SP, "Equivalent", SP, "study", SP, "medium">>
CoachingCenter == <<"Did", SP, "you", SP, "ever", SP, "attend", SP, "a", SP, "Coaching", SP, "center?">>
ClassModality == <<"Classes", SP, "are", SP, "mostly">>
Gender == <<"Gender">>

\* The column each chart block of the script references.
ChartColumnWrongGender(k) ==
  CASE k = 1 -> ArtsProgram
    [] k = 2 -> AcademicYear
    [] k = 3 -> StudyMedium
    [] k = 4 -> CoachingCenter
    [] k = 5 -> ClassModality
    [] k = 6 -> Gender
    [] OTHER -> ArtsProgram

ChartColumn(k) ==
  CASE k = 1 -> ArtsProgram
    [] k = 2 -> AcademicYear
    [] k = 3 -> StudyMedium
    [] k = 4 -> CoachingCenter
    [] k = 5 -> ClassModality
    [] k = 6 -> Gender
    [] OTHER -> Gender

\* Charts 1, 4, 6, 7 aggregate with value_counts(); 2, 3, 5 are px.histogram.
ValueCountCharts == {1, 4, 6, 7}
HistogramCharts == {2, 3, 5}

\* ------------------------------------------------------------- data frames
EmptyDataFrame == [columns |-> <<>>, rows |-> <<>>]

\* DataFrame.empty: true when any axis has length 0.
empty_both_axes(df) == Len(df.rows) = 0 /\ Len(df.columns) = 0

empty(df) == Len(df.columns) = 0 \/ Len(df.rows) = 0

IndexOf(seq, x) ==
  IF \E i \in 1..Len(seq) : seq[i] = x
  THEN CHOOSE i \in 1..Len(seq) : seq[i] = x /\ \A j \in 1..(i-1) : seq[j] # x
  ELSE 0

\* `col in df.columns`
HasColumn(df, col) == IndexOf(df.columns, col) # 0

\* df[col]: the cells of one column, in row order.
Column(df, col) ==
  [r \in 1..Len(df.rows) |-> df.rows[r][IndexOf(df.columns, col)]]

\* ------------------------------------------------------------ pd.read_csv
\* The tokens pandas reads as a missing value (a blank field among them).
NaValues == {"", "NA", "N/A", "NaN", "null"}

ReadCell(c) == IF c \in NaValues THEN NaN ELSE c

\* A resource is what the URL serves at one moment: kind "csv" carries a
\* header line and data lines, the other kinds are fetch or parse failures.
read_csv(res) ==
  IF res.kind # "csv" \/ Len(res.header) = 0
  THEN [raised |-> TRUE, df |-> EmptyDataFrame]
  ELSE [raised |-> FALSE,
        df |-> [columns |-> res.header,
                rows |-> [r \in 1..Len(res.lines) |->
                            [i \in 1..Len(res.lines[r]) |-> ReadCell(res.lines[r][i])]]]]

\* The body of load_data: the result handed to the cache and to the caller.
\*   raised: an exception leaves the function; failed: st.error was emitted.
load_data_noexcept(res) ==
  [value |-> read_csv(res).df, failed |-> FALSE, raised |-> read_csv(res).raised]

load_data(res) ==
  IF read_csv(res).raised
  THEN [value |-> EmptyDataFrame, failed |-> TRUE, raised |-> FALSE]
  ELSE [value |-> read_csv(res).df, failed |-> FALSE, raised |-> FALSE]

\* --------------------------------------------------- Series.value_counts
RECURSIVE Unique(_)
\* Distinct elements in order of first appearance.
Unique(seq) ==
  IF seq = <<>> THEN <<>>
  ELSE LET init == Unique(SubSeq(seq, 1, Len(seq) - 1))
           last == seq[Len(seq)]
       IN IF \E i \in 1..Len(init) : init[i] = last THEN init ELSE Append(init, last)

Occurrences(seq, v) == Cardinality({i \in 1..Len(seq) : seq[i] = v})

RECURSIVE InsertByCount(_, _)
\* Stable insertion into a sequence sorted by descending count.
InsertByCount(sorted, p) ==
  IF sorted = <<>> THEN <<p>>
  ELSE IF sorted[Len(sorted)].count >= p.count THEN Append(sorted, p)
  ELSE Append(InsertByCount(SubSeq(sorted, 1, Len(sorted) - 1), p), sorted[Len(sorted)])

RECURSIVE SortByCount(_)
SortByCount(pairs) ==
  IF pairs = <<>> THEN <<>>
  ELSE InsertByCount(SortByCount(SubSeq(pairs, 1, Len(pairs) - 1)), pairs[Len(pairs)])

NotNaN(c) == c # NaN

CountPairs(cells) ==
  LET vals == Unique(cells)
  IN SortByCount([i \in 1..Len(vals) |->
                    [value |-> vals[i], count |-> Occurrences(cells, vals[i])]])

\* df[col].value_counts().reset_index(): (value, count) pairs, missing values
\* dropped (dropna defaults to True), most frequent first.
value_counts_keepna(df, col) == CountPairs(Column(df, col))

value_counts(df, col) == CountPairs(SelectSeq(Column(df, col), NotNaN))

NoCounts == <<>>

\* -------------------------------------------------------- what a URL serves
Failures ==
  { [kind |-> k, header |-> <<>>, lines |-> <<>>] :
      k \in {"unreachable", "notfound", "malformed"} }

AllColumns ==
  <<ArtsProgram, AcademicYear, StudyMedium, CoachingCenter, ClassModality, Gender>>

\* A header names the dataset's columns; the file on the server may lack one
\* of them, or carry stray whitespace around a name.
Without(seq, j) == [i \in 1..(Len(seq) - (IF j \in 1..Len(seq) THEN 1 ELSE 0)) |->
                      IF j = 0 \/ i < j THEN seq[i] ELSE seq[i + 1]]

Pad(name, pad) ==
  CASE pad = "lead" -> <<SP>> \o name
    [] pad = "trail" -> name \o <<SP>>
    [] OTHER -> name

Headers ==
  { [i \in 1..Len(Without(AllColumns, j)) |->
       IF Without(AllColumns, j)[i] = Gender
       THEN Pad(Gender, pad) ELSE Without(AllColumns, j)[i]] :
      j \in 0..Len(AllColumns), pad \in {"none", "lead", "trail"} }
  \cup {<<>>}

\* A respondent's answers: one answer to the Gender question, one to the rest.
Answers == {[g |-> g, o |-> o] : g \in {"F", "M", ""}, o \in {"A", ""}}

Line(header, a) ==
  [i \in 1..Len(header) |-> IF header[i] \in {Pad(Gender, p) : p \in {"none", "lead", "trail"}}
                            THEN a.g ELSE a.o]

AnswerLists == UNION {[1..n -> Answers] : n \in 0..MaxRows}

Csvs ==
  { [kind |-> "csv", header |-> h,
     lines |-> [r \in 1..Len(al) |-> Line(h, al[r])]] :
      h \in Headers, al \in AnswerLists }

Resources == Failures \cup Csvs

\* The few resources the URL alternates between while sessions interleave.
FullCsv(al) == [kind |-> "csv", header |-> AllColumns,
                lines |-> [r \in 1..Len(al) |-> Line(AllColumns, al[r])]]

ChangingResources ==
  { f \in Failures : f.kind \in {"notfound", "malformed"} } \cup
  { FullCsv(<<>>),
    FullCsv(<<[g |-> "F", o |-> "A"]>>),
    [kind |-> "csv", header |-> Without(AllColumns, 4),
     lines |-> <<Line(Without(AllColumns, 4), [g |-> "F", o |-> "A"])>>] }

\* ------------------------------------------------------------------ state
VARIABLES
  remote,             \* what the URL serves now
  cache,              \* the st.cache_data entry of load_data()
  lock,               \* the session computing the cached value, 0 when none
  fetches,            \* times the body of load_data has run in this process
  writes,             \* times the cache entry has been written
  pc,                 \* per session: position of the run in the script
  budget,             \* per session: page views still to come
  loads,              \* per session: load_data() calls that have returned
  result,             \* per session: value computed by the body, not yet stored
  arts_df,            \* per session: the table load_data() returned to this run
  prev_df,            \* per session: the table the previous run got
  diag,               \* per session: st.error diagnostics shown in this run
  rendered,           \* per session: charts passed to st.plotly_chart, in order
  aggs,               \* per session: value_counts() aggregations performed
  notices,            \* per session: st.warning notices shown
  sidebar,            \* per session: the usage note has been shown
  err,                \* per session: the exception that ended the run
  program_counts,     \* per session: chart 1 pairs
  coaching_counts,    \* per session: chart 4 pairs
  gender_counts_pie,  \* per session: chart 6 pairs
  gender_counts_bar   \* per session: chart 7 pairs

process == <<remote, cache, lock, fetches, writes>>
counts == <<program_counts, coaching_counts, gender_counts_pie, gender_counts_bar>>
page == <<rendered, aggs, notices, sidebar, counts>>
vars == <<process, pc, budget, loads, result, arts_df, prev_df, diag, err, page>>

NoEntry == [present |-> FALSE, value |-> EmptyDataFrame, failed |-> FALSE]
NoResult == [value |-> EmptyDataFrame, failed |-> FALSE, raised |-> FALSE]
NoError == [kind |-> "none", column |-> <<>>]

\* ----------------------------------------------------------- st.cache_data
\* A cached value exists for the key of load_data().
cache_hit_never(c) == FALSE

cache_hit(c) == c.present

\* The entry written after the body returned a value.
cache_entry_unless_failed(res) ==
  IF res.failed THEN NoEntry
  ELSE [present |-> TRUE, value |-> res.value, failed |-> res.failed]

cache_entry(res) == [present |-> TRUE, value |-> res.value, failed |-> res.failed]

\* The per-key lock that is held while a missing value is computed.
compute_value_lock_free_always(l) == TRUE

compute_value_lock_free(l) == l = 0

\* --------------------------------------------------------------- initially
InitCommon ==
  /\ cache = NoEntry
  /\ lock = 0
  /\ fetches = 0
  /\ writes = 0
  /\ pc = [s \in Sessions |-> "idle"]
  /\ loads = [s \in Sessions |-> 0]
  /\ result = [s \in Sessions |-> NoResult]
  /\ arts_df = [s \in Sessions |-> EmptyDataFrame]
  /\ prev_df = [s \in Sessions |-> EmptyDataFrame]
  /\ diag = [s \in Sessions |-> 0]
  /\ rendered = [s \in Sessions |-> <<>>]
  /\ aggs = [s \in Sessions |-> 0]
  /\ notices = [s \in Sessions |-> 0]
  /\ sidebar = [s \in Sessions |-> FALSE]
  /\ err = [s \in Sessions |-> NoError]
  /\ program_counts = [s \in Sessions |-> NoCounts]
  /\ coaching_counts = [s \in Sessions |-> NoCounts]
  /\ gender_counts_pie = [s \in Sessions |-> NoCounts]
  /\ gender_counts_bar = [s \in Sessions |-> NoCounts]

\* Several sessions view the page repeatedly while the resource changes.
Init ==
  /\ InitCommon
  /\ remote \in ChangingResources
  /\ budget = [s \in Sessions |-> MaxRuns]

\* One view of the page, for every resource the URL may serve.
InitOneRun ==
  /\ InitCommon
  /\ remote \in Resources
  /\ budget = [s \in Sessions |-> IF s = 1 THEN 1 ELSE 0]

\* ------------------------------------------------------------ the script
\* A page view starts a run of the script from its first line.
StartRun(s) ==
  /\ pc[s] \in {"idle", "done", "aborted"}
  /\ budget[s] > 0
  /\ budget' = [budget EXCEPT ![s] = @ - 1]
  /\ pc' = [pc EXCEPT ![s] = "load"]
  /\ prev_df' = [prev_df EXCEPT ![s] = arts_df[s]]
  /\ arts_df' = [arts_df EXCEPT ![s] = EmptyDataFrame]
  /\ result' = [result EXCEPT ![s] = NoResult]
  /\ diag' = [diag EXCEPT ![s] = 0]
  /\ rendered' = [rendered EXCEPT ![s] = <<>>]
  /\ aggs' = [aggs EXCEPT ![s] = 0]
  /\ notices' = [notices EXCEPT ![s] = 0]
  /\ sidebar' = [sidebar EXCEPT ![s] = FALSE]
  /\ err' = [err EXCEPT ![s] = NoError]
  /\ program_counts' = [program_counts EXCEPT ![s] = NoCounts]
  /\ coaching_counts' = [coaching_counts EXCEPT ![s] = NoCounts]
  /\ gender_counts_pie' = [gender_counts_pie EXCEPT ![s] = NoCounts]
  /\ gender_counts_bar' = [gender_counts_bar EXCEPT ![s] = NoCounts]
  /\ UNCHANGED <<process, loads>>

\* load_data() returns the cached entry: the caller gets the value and the
\* st.error recorded with it is replayed.
Return(s, entry) ==
  /\ arts_df' = [arts_df EXCEPT ![s] = entry.value]
  /\ diag' = [diag EXCEPT ![s] = IF entry.failed THEN 1 ELSE 0]
  /\ loads' = [loads EXCEPT ![s] = @ + 1]
  /\ pc' = [pc EXCEPT ![s] = "layout"]

\* arts_df = load_data(): the decorator looks the value up first.
CacheLookup(s) ==
  /\ pc[s] = "load"
  /\ IF cache_hit(cache)
     THEN Return(s, cache)
     ELSE /\ pc' = [pc EXCEPT ![s] = "wait"]
          /\ UNCHANGED <<arts_df, diag, loads>>
  /\ UNCHANGED <<process, budget, result, prev_df, err, page>>

\* On a miss the session takes the compute lock and looks again.
AcquireComputeLock(s) ==
  /\ pc[s] = "wait"
  /\ compute_value_lock_free(lock)
  /\ IF cache_hit(cache)
     THEN /\ Return(s, cache)
          /\ UNCHANGED lock
     ELSE /\ lock' = s
          /\ pc' = [pc EXCEPT ![s] = "fetch"]
          /\ UNCHANGED <<arts_df, diag, loads>>
  /\ UNCHANGED <<remote, cache, fetches, writes, budget, result, prev_df, err, page>>

\* The body of load_data runs against what the URL serves at that moment.
RunBody(s) ==
  /\ pc[s] = "fetch"
  /\ fetches' = fetches + 1
  /\ IF load_data(remote).raised
     THEN /\ lock' = 0
          /\ pc' = [pc EXCEPT ![s] = "aborted"]
          /\ err' = [err EXCEPT ![s] = [kind |-> "LoadError", column |-> <<>>]]
          /\ UNCHANGED result
     ELSE /\ result' = [result EXCEPT ![s] = load_data(remote)]
          /\ pc' = [pc EXCEPT ![s] = "store"]
          /\ UNCHANGED <<lock, err>>
  /\ UNCHANGED <<remote, cache, writes, budget, loads, arts_df, prev_df, diag, page>>

\* The computed value is written to the cache, the lock is released and the
\* value is returned to the caller.
StoreResult(s) ==
  /\ pc[s] = "store"
  /\ cache' = cache_entry(result[s])
  /\ writes' = writes + 1
  /\ lock' = 0
  /\ Return(s, result[s])
  /\ result' = [result EXCEPT ![s] = NoResult]
  /\ UNCHANGED <<remote, fetches, budget, prev_df, err, page>>

\* st.title, st.markdown and the branch on arts_df.empty.
Layout(s) ==
  /\ pc[s] = "layout"
  /\ pc' = [pc EXCEPT ![s] = IF ~empty(arts_df[s]) THEN "charts" ELSE "warn"]
  /\ UNCHANGED <<process, budget, loads, result, arts_df, prev_df, diag, err, page>>

\* else: st.warning(...)
Warn(s) ==
  /\ pc[s] = "warn"
  /\ notices' = [notices EXCEPT ![s] = @ + 1]
  /\ pc' = [pc EXCEPT ![s] = "sidebar"]
  /\ UNCHANGED <<process, budget, loads, result, arts_df, prev_df, diag, err,
                 rendered, aggs, sidebar, counts>>

\* A chart block whose column is absent raises: the run ends there.
RaiseSwallowed(s, kind, col) ==
  /\ pc' = [pc EXCEPT ![s] = "sidebar"]
  /\ UNCHANGED err

Raise(s, kind, col) ==
  /\ pc' = [pc EXCEPT ![s] = "aborted"]
  /\ err' = [err EXCEPT ![s] = [kind |-> kind, column |-> col]]

Plot(s, k) ==
  /\ rendered' = [rendered EXCEPT ![s] = Append(@, k)]
  /\ pc' = [pc EXCEPT ![s] = IF k = NumCharts THEN "sidebar" ELSE "charts"]
  /\ UNCHANGED err

\* The chart blocks follow one another in the script: block k runs after k - 1.
AtChartAnyOrder(s, k) ==
  /\ pc[s] = "charts"
  /\ Len(rendered[s]) < NumCharts
  /\ \A i \in 1..Len(rendered[s]) : rendered[s][i] # k

AtChart(s, k) == pc[s] = "charts" /\ Len(rendered[s]) = k - 1

\* px.histogram(arts_df, x=col, color=col) and st.plotly_chart.
HistogramChart(s, k) ==
  /\ AtChart(s, k)
  /\ IF HasColumn(arts_df[s], ChartColumn(k))
     THEN Plot(s, k)
     ELSE Raise(s, "ValueError", ChartColumn(k)) /\ UNCHANGED rendered
  /\ UNCHANGED <<process, budget, loads, result, arts_df, prev_df, diag,
                 aggs, notices, sidebar, counts>>

\* arts_df[col].value_counts().reset_index(), px.bar / px.pie, st.plotly_chart.
Chart1(s) ==
  /\ AtChart(s, 1)
  /\ IF HasColumn(arts_df[s], ChartColumn(1))
     THEN /\ program_counts' = [program_counts EXCEPT ![s] = value_counts(arts_df[s], ChartColumn(1))]
          /\ aggs' = [aggs EXCEPT ![s] = @ + 1]
          /\ Plot(s, 1)
     ELSE /\ Raise(s, "KeyError", ChartColumn(1))
          /\ UNCHANGED <<program_counts, aggs, rendered>>
  /\ UNCHANGED <<process, budget, loads, result, arts_df, prev_df, diag,
                 notices, sidebar, coaching_counts, gender_counts_pie, gender_counts_bar>>

Chart2(s) == HistogramChart(s, 2)

Chart3(s) == HistogramChart(s, 3)

Chart4(s) ==
  /\ AtChart(s, 4)
  /\ IF HasColumn(arts_df[s], ChartColumn(4))
     THEN /\ coaching_counts' = [coaching_counts EXCEPT ![s] = value_counts(arts_df[s], ChartColumn(4))]
          /\ aggs' = [aggs EXCEPT ![s] = @ + 1]
          /\ Plot(s, 4)
     ELSE /\ Raise(s, "KeyError", ChartColumn(4))
          /\ UNCHANGED <<coaching_counts, aggs, rendered>>
  /\ UNCHANGED <<process, budget, loads, result, arts_df, prev_df, diag,
                 notices, sidebar, program_counts, gender_counts_pie, gender_counts_bar>>

Chart5(s) == HistogramChart(s, 5)

Chart6(s) ==
  /\ AtChart(s, 6)
  /\ IF HasColumn(arts_df[s], ChartColumn(6))
     THEN /\ gender_counts_pie' = [gender_counts_pie EXCEPT ![s] = value_counts(arts_df[s], ChartColumn(6))]
          /\ aggs' = [aggs EXCEPT ![s] = @ + 1]
          /\ Plot(s, 6)
     ELSE /\ Raise(s, "KeyError", ChartColumn(6))
          /\ UNCHANGED <<gender_counts_pie, aggs, rendered>>
  /\ UNCHANGED <<process, budget, loads, result, arts_df, prev_df, diag,
                 notices, sidebar, program_counts, coaching_counts, gender_counts_bar>>

Chart7(s) ==
  /\ AtChart(s, 7)
  /\ IF HasColumn(arts_df[s], ChartColumn(7))
     THEN /\ gender_counts_bar' = [gender_counts_bar EXCEPT ![s] = value_counts(arts_df[s], ChartColumn(7))]
          /\ aggs' = [aggs EXCEPT ![s] = @ + 1]
          /\ Plot(s, 7)
     ELSE /\ Raise(s, "KeyError", ChartColumn(7))
          /\ UNCHANGED <<gender_counts_bar, aggs, rendered>>
  /\ UNCHANGED <<process, budget, loads, result, arts_df, prev_df, diag,
                 notices, sidebar, program_counts, coaching_counts, gender_counts_pie>>

\* st.sidebar.header / st.sidebar.info: the last statements of the script.
Sidebar(s) ==
  /\ pc[s] = "sidebar"
  /\ sidebar' = [sidebar EXCEPT ![s] = TRUE]
  /\ pc' = [pc EXCEPT ![s] = "done"]
  /\ UNCHANGED <<process, budget, loads, result, arts_df, prev_df, diag, err,
                 rendered, aggs, notices, counts>>

\* The file behind the URL is replaced, removed or the network goes away.
RemoteChanges ==
  /\ remote' \in ChangingResources \ {remote}
  /\ UNCHANGED <<cache, lock, fetches, writes, pc, budget, loads, result,
                 arts_df, prev_df, diag, err, page>>

Run(s) ==
  \/ StartRun(s)
  \/ CacheLookup(s)
  \/ AcquireComputeLock(s)
  \/ RunBody(s)
  \/ StoreResult(s)
  \/ Layout(s)
  \/ Warn(s)
  \/ Chart1(s)
  \/ Chart2(s)
  \/ Chart3(s)
  \/ Chart4(s)
  \/ Chart5(s)
  \/ Chart6(s)
  \/ Chart7(s)
  \/ Sidebar(s)

Next == (\E s \in Sessions : Run(s)) \/ RemoteChanges

NextOneRun == \E s \in Sessions : Run(s)

Spec == Init /\ [][Next]_vars

SpecOneRun == InitOneRun /\ [][NextOneRun]_vars

\* ------------------------------------------------------------- properties
\* load_data() has returned to the current run of session s.
Loaded(s) ==
  \/ pc[s] \in {"layout", "warn", "charts", "sidebar", "done"}
  \/ pc[s] = "aborted" /\ err[s].kind \in {"KeyError", "ValueError"}

ColumnPresent(df, col) == \E i \in 1..Len(df.columns) : df.columns[i] = col

NoRowsNoColumns(df) == Len(df.rows) = 0 /\ Len(df.columns) = 0

\* The resource cannot be fetched or parsed.
Unloadable(res) == res \in Failures \/ res.header = <<>>

RECURSIVE SumCounts(_)
SumCounts(pairs) ==
  IF pairs = <<>> THEN 0
  ELSE pairs[Len(pairs)].count + SumCounts(SubSeq(pairs, 1, Len(pairs) - 1))

NonMissing(df, col) ==
  Cardinality({r \in 1..Len(df.rows) :
                 \E i \in 1..Len(df.columns) : df.columns[i] = col /\ df.rows[r][i] # NaN})

RECURSIVE LStrip(_)
LStrip(name) == IF name # <<>> /\ Head(name) = SP THEN LStrip(Tail(name)) ELSE name

RECURSIVE RStrip(_)
RStrip(name) ==
  IF name # <<>> /\ name[Len(name)] = SP THEN RStrip(SubSeq(name, 1, Len(name) - 1)) ELSE name

\* str.strip() on a column name
Strip(name) == RStrip(LStrip(name))

Rendered(s, k) == \E i \in 1..Len(rendered[s]) : rendered[s][i] = k

\* C1: when the resource cannot be fetched or parsed, load_data() hands its
\* caller a table with zero rows and zero columns, no error of the load ends
\* the run, and the run goes on to the empty-table branch (the notice), never
\* to a chart.
C1_FailedLoadReturnsEmptyTable ==
  \A s \in Sessions :
    Unloadable(remote) =>
      /\ err[s].kind # "LoadError"
      /\ Loaded(s) =>
           /\ NoRowsNoColumns(arts_df[s])
           /\ pc[s] \notin {"charts", "aborted"}
           /\ rendered[s] = <<>>
           /\ pc[s] \in {"sidebar", "done"} => notices[s] = 1

C1_Witness ==
  /\ remote.kind = "malformed"
  /\ pc[1] = "warn"
  /\ NoRowsNoColumns(arts_df[1])
  /\ diag[1] = 1

\* C2: a run whose table has zero rows (failed load, or header without data
\* rows) performs no aggregation, renders no chart and shows exactly one
\* "cannot proceed" notice.
C2_EmptyTableOneNotice ==
  \A s \in Sessions :
    (Loaded(s) /\ Len(arts_df[s].rows) = 0) =>
      /\ aggs[s] = 0
      /\ rendered[s] = <<>>
      /\ pc[s] \notin {"charts", "aborted"}
      /\ notices[s] <= 1
      /\ pc[s] \in {"sidebar", "done"} => notices[s] = 1

C2_Witness ==
  /\ pc[1] = "done"
  /\ Len(arts_df[1].columns) > 0
  /\ Len(arts_df[1].rows) = 0
  /\ notices[1] = 1
  /\ aggs[1] = 0

CountsOf(s, k) ==
  CASE k = 1 -> program_counts[s]
    [] k = 4 -> coaching_counts[s]
    [] k = 6 -> gender_counts_pie[s]
    [] OTHER -> gender_counts_bar[s]

\* C3 as stated: the counts of every value-count chart sum to the number of
\* rows of the table, missing values included.
C3_CountsSumToRowCount ==
  \A s \in Sessions : \A k \in ValueCountCharts :
    Rendered(s, k) => SumCounts(CountsOf(s, k)) = Len(arts_df[s].rows)

\* C3 amended: the counts of every value-count chart sum to the number of rows
\* whose value in the chart's column is not missing.
C3_CountsSumToNonMissingRows ==
  \A s \in Sessions : \A k \in ValueCountCharts :
    Rendered(s, k) =>
      SumCounts(CountsOf(s, k)) = NonMissing(arts_df[s], ChartColumn(k))

C3_Witness ==
  /\ Rendered(1, 6)
  /\ Len(arts_df[1].rows) = 2
  /\ SumCounts(gender_counts_pie[1]) = 1

\* C4 as stated: for a valid CSV the loaded table's column names are the
\* header names stripped of surrounding whitespace, and its row count is the
\* number of data rows.
C4_LoadStripsColumnNames ==
  \A s \in Sessions :
    (Loaded(s) /\ ~Unloadable(remote)) =>
      /\ arts_df[s].columns = [i \in 1..Len(remote.header) |-> Strip(remote.header[i])]
      /\ Len(arts_df[s].rows) = Len(remote.lines)

\* C5: on a non-empty table a chart whose column is absent is never rendered;
\* the run ends with an error that names that column (KeyError for the
\* value-count charts, ValueError for the histograms) and no run completes
\* with a referenced column absent.
C5_MissingColumnFailsFast ==
  \A s \in Sessions :
    /\ \A i \in 1..Len(rendered[s]) : ColumnPresent(arts_df[s], ChartColumn(rendered[s][i]))
    /\ (pc[s] = "aborted" /\ err[s].kind # "LoadError") =>
         /\ Len(rendered[s]) < NumCharts
         /\ err[s].column = ChartColumn(Len(rendered[s]) + 1)
         /\ ~ColumnPresent(arts_df[s], err[s].column)
         /\ err[s].kind = IF Len(rendered[s]) + 1 \in HistogramCharts
                          THEN "ValueError" ELSE "KeyError"
    /\ (pc[s] \in {"sidebar", "done"} /\ ~empty(arts_df[s])) =>
         \A k \in 1..NumCharts : ColumnPresent(arts_df[s], ChartColumn(k))

C5_Witness ==
  /\ pc[1] = "aborted"
  /\ err[1] = [kind |-> "ValueError", column |-> AcademicYear]
  /\ rendered[1] = <<1>>
  /\ ~empty(arts_df[1])

\* C6: the second and every later load in a session returns a table equal to
\* the one the previous run of the session got, whatever the URL serves now.
C6_RepeatedLoadSameContent ==
  \A s \in Sessions :
    (Loaded(s) /\ loads[s] >= 2) => arts_df[s] = prev_df[s]

C6_Witness ==
  /\ Loaded(1)
  /\ loads[1] = 2
  /\ ~empty(arts_df[1])
  /\ remote.kind = "notfound"

C8_FetchOnceCompleteResults ==
  /\ fetches <= 1
  /\ writes <= 1
  /\ Cardinality({s \in Sessions : pc[s] \in {"fetch", "store"}}) <= 1
  /\ \A s \in Sessions :
       Loaded(s) => cache.present /\ arts_df[s] = cache.value /\ result[s] = NoResult

C8_Witness ==
  /\ pc[1] = "store"
  /\ pc[2] = "wait"
  /\ ~cache.present
  /\ fetches = 1

AllColumnsPresent(df) == \A k \in 1..NumCharts : ColumnPresent(df, ChartColumn(k))

FirstMissing(df) ==
  CHOOSE k \in 1..NumCharts :
    /\ ~ColumnPresent(df, ChartColumn(k))
    /\ \A j \in 1..(k - 1) : ColumnPresent(df, ChartColumn(j))

IsPrefix(a, b) == Len(a) <= Len(b) /\ \A i \in 1..Len(a) : a[i] = b[i]

C9_State ==
  \A s \in Sessions :
    /\ Len(rendered[s]) <= NumCharts
    /\ \A i \in 1..Len(rendered[s]) : rendered[s][i] = i
    /\ (Loaded(s) /\ ~empty(arts_df[s]) /\ AllColumnsPresent(arts_df[s])) =>
         /\ pc[s] # "aborted"
         /\ notices[s] = 0
         /\ sidebar[s] => Len(rendered[s]) = NumCharts
         /\ pc[s] = "done" => sidebar[s]
    /\ (Loaded(s) /\ ~empty(arts_df[s]) /\ ~AllColumnsPresent(arts_df[s])) =>
         /\ Len(rendered[s]) <= FirstMissing(arts_df[s]) - 1
         /\ ~sidebar[s]
         /\ pc[s] \notin {"sidebar", "done"}
         /\ pc[s] = "aborted" => Len(rendered[s]) = FirstMissing(arts_df[s]) - 1

C9_Step ==
  \A s \in Sessions :
    pc'[s] # "load" => IsPrefix(rendered[s], rendered'[s])

\* C9: in a run on a non-empty table the charts rendered so far are 1..n in
\* order, each once, and stay rendered; with every column present the run
\* renders all seven before the usage note and shows no notice; when chart k
\* is the first whose column is absent the run stops with exactly 1..k-1
\* rendered and never shows the usage note.
C9_ChartsInOrder == []C9_State /\ [][C9_Step]_vars

C9_Witness ==
  /\ pc[1] = "aborted"
  /\ rendered[1] = <<1, 2, 3>>
  /\ ~sidebar[1]
  /\ err[1].column = CoachingCenter

C10_State ==
  /\ \A s, t \in Sessions :
       (Loaded(s) /\ diag[s] = 1 /\ Loaded(t)) =>
         NoRowsNoColumns(arts_df[t]) /\ diag[t] = 1
  /\ \A s \in Sessions :
       (Loaded(s) /\ loads[s] >= 2 /\ NoRowsNoColumns(prev_df[s])) =>
         /\ NoRowsNoColumns(arts_df[s])
         /\ diag[s] = 1
         /\ pc[s] \notin {"charts", "aborted"}
         /\ pc[s] \in {"sidebar", "done"} => notices[s] = 1

C10_Step ==
  (cache.present /\ cache.failed) => (cache' = cache /\ fetches' = fetches)

\* C10: a failed load is cached like any other value: the entry never changes
\* afterwards and the body never runs again, every run that loads after a
\* failed load gets the empty table and ends at the "cannot proceed" notice,
\* even when the URL serves a valid file by then.
C10_FailedLoadIsSticky == []C10_State /\ [][C10_Step]_vars

C10_Witness ==
  /\ cache.present /\ cache.failed
  /\ remote.kind = "csv" /\ Len(remote.lines) > 0
  /\ loads[2] = 2
  /\ pc[2] = "done"
  /\ notices[2] = 1
  /\ fetches = 1

====
